---- MODULE Spec2Model ----
(***************************************************************************)
(* PPM productivity data collection app (Streamlit).                       *)
(*   variant 1: src/ppm_quick_app.py                 (entry form only)     *)
(*   variant 2: src/ppm_quick_app_no_verification.py (phone login, roles,  *)
(*              entry form, admin summary)                                 *)
(* Every user interaction reruns the script main() from the top for that   *)
(* browser session.  A run is split where it touches the shared files:     *)
(* read users.csv, show_login (may write users.csv), read the workbook,    *)
(* the page body (may write the workbook).  Runs of different sessions     *)
(* interleave at those points; nothing locks the files.                    *)
(***************************************************************************)
EXTENDS Integers, Sequences, FiniteSets, TLC

VARIABLES
    variant,        \* 1 or 2: which of the two scripts is deployed
    project_df,     \* "Project List" sheet after dropna (reference data)
    inputs_file,    \* persisted "Inputs" sheet of the workbook
    users_file,     \* users.csv: [exists, readable, rows]
    session_state,  \* st.session_state per session: logged_in, is_admin, phone
    pc,             \* per session: position of the running script
    workbook_ok,    \* FALSE once a failed write left the workbook unreadable
    click,          \* per session: the button whose click started the run
    phone_input,    \* per session: text of the "mobile number" field
    users,          \* per session: local `users` DataFrame of main()
    inputs_df,      \* per session: local `inputs_df` DataFrame of main()
    shown,          \* per session: what the last completed run rendered
    remaining,      \* per session: project and remaining values last displayed
    save_result,    \* per session: how the last run's workbook write ended
    summary,        \* per session: the summary table on the page, if any
    submitted       \* per session: the row built by the run that showed the page

vars == <<variant, project_df, inputs_file, users_file, workbook_ok,
          session_state, pc, click, phone_input, users, inputs_df, shown,
          remaining, save_result, summary, submitted>>

(***************************************************************************)
(* Bounds of the model.                                                    *)
(***************************************************************************)
MaxLog == 2
MaxLogDirect == 1
MaxUsers == 2
MaxCount == 2
MaxLogTwo == 2

\* browser sessions; each has its own st.session_state and its own script runs
Sessions == {"s1", "s2"}

(***************************************************************************)
(* Text.  Cell texts that the code inspects character by character         *)
(* (strip, lower, the CSV parser's missing-value test) are sequences of    *)
(* one-character strings.  NaN is pandas' missing value.                   *)
(***************************************************************************)
NaN == <<"NaN">>
EmptyText == <<>>
UserRole == <<"u", "s", "e", "r">>
AdminRole == <<"a", "d", "m", "i", "n">>
AdminRoleCap == <<"A", "d", "m", "i", "n">>
PhoneAdmin == <<"7">>
PhoneNA == <<"N", "A">>
NameSara == <<"S", "a", "r", "a">>

\* str.strip(): leading and trailing whitespace removed
RECURSIVE LStrip(_)
LStrip(t) == IF t # <<>> /\ Head(t) = " " THEN LStrip(Tail(t)) ELSE t

RECURSIVE RStrip(_)
RStrip(t) ==
    IF t # <<>> /\ t[Len(t)] = " " THEN RStrip(SubSeq(t, 1, Len(t) - 1)) ELSE t

StripMutNone(t) == t

Strip(t) == RStrip(LStrip(t))

\* str.lower() on the letters that occur in the model's texts
LowerChar(c) ==
    CASE c = "A" -> "a"
      [] c = "D" -> "d"
      [] c = "M" -> "m"
      [] c = "I" -> "i"
      [] c = "N" -> "n"
      [] c = "S" -> "s"
      [] OTHER -> c

Lower(t) == [i \in DOMAIN t |-> LowerChar(t[i])]

(***************************************************************************)
(* users.csv.  The file holds rows of cell texts.  pandas.read_csv (with   *)
(* dtype=str and the default missing-value list) yields NaN for a cell     *)
(* whose text is empty or is one of the default missing-value spellings;   *)
(* DataFrame.to_csv writes NaN as an empty cell.                           *)
(***************************************************************************)
NaTexts == {EmptyText, PhoneNA}

ReadCsvCell(t) == IF t \in NaTexts THEN NaN ELSE t

WriteCsvCell(v) == IF v = NaN THEN EmptyText ELSE v

read_csv(rows) ==
    [i \in DOMAIN rows |->
        [phone |-> ReadCsvCell(rows[i].phone),
         name |-> ReadCsvCell(rows[i].name),
         role |-> ReadCsvCell(rows[i].role)]]

to_csv(df) ==
    [i \in DOMAIN df |->
        [phone |-> WriteCsvCell(df[i].phone),
         name |-> WriteCsvCell(df[i].name),
         role |-> WriteCsvCell(df[i].role)]]

\* load_users(): the parsed file, or an empty frame when the file is absent
\* or reading it raises
load_users(file) ==
    IF file.exists
    THEN IF file.readable THEN read_csv(file.rows) ELSE <<>>
    ELSE <<>>

\* save_users(users): users.csv is rewritten whole
save_users(df) == [exists |-> TRUE, readable |-> TRUE, rows |-> to_csv(df)]

(***************************************************************************)
(* show_login's decision for a stripped, non-empty phone.                  *)
(***************************************************************************)
\* phone in users['phone'].values
PhoneKnown(df, phone) == \E i \in DOMAIN df : df[i].phone = phone

\* users[users['phone'] == phone].iloc[0]
UserRecord(df, phone) ==
    LET Match(r) == r.phone = phone
    IN  SelectSeq(df, Match)[1]

\* user_record['role'].lower() == 'admin'
IsAdmin(df, phone) == Lower(UserRecord(df, phone).role) = AdminRole

\* new_row and pd.concat([users, new_row])
Register(df, phone) ==
    Append(df, [phone |-> phone, name |-> EmptyText, role |-> UserRole])

(***************************************************************************)
(* The workbook "PPM App Data.xlsx".                                       *)
(* Categories 1..4 are Indoors, VRF OD, DX Outdoor, AHU.  A project row    *)
(* holds its four quota cells in qty; null names the quota cells that are  *)
(* empty in the sheet (read as NaN).  A log row holds the four completed   *)
(* counts and the three technician and three helper names.  An empty       *)
(* string cell of the sheet is read back as NaN (NaNStr); to_excel writes  *)
(* both "" and NaN as an empty cell.                                       *)
(***************************************************************************)
Categories == 1..4
Zero4 == [c \in Categories |-> 0]
NaNStr == "NaN"

ProjectRow(o, n, e, q, nulls) ==
    [ProjectOwner |-> o, ProjectName |-> n, Emirate |-> e, qty |-> q, null |-> nulls]

ProjectTableFull ==
    << ProjectRow("Acme", "TowerA", "Dubai", <<2, 1, 0, 1>>, {}),
       ProjectRow("Acme", "TowerB", "Sharjah", <<1, 0, 0, 0>>, {}),
       ProjectRow("Beta", "TowerA", "Ajman", <<0, 0, 1, 0>>, {}) >>

ProjectTableNullQuota ==
    << ProjectRow("Acme", "TowerA", "Dubai", <<2, 1, 0, 1>>, {}),
       ProjectRow("Beta", "TowerA", "Ajman", <<0, 0, 1, 0>>, {4}) >>

ProjectTables == {ProjectTableFull, ProjectTableNullQuota}

LogRow(o, n, e, done, techs, helps) ==
    [Date |-> "today", ProjectOwner |-> o, ProjectName |-> n, Emirate |-> e,
     completed |-> done, tech |-> techs, helper |-> helps]

ReadXlsxCell(c) == IF c = "" THEN NaNStr ELSE c

WriteXlsxCell(v) == IF v = NaNStr THEN "" ELSE v

ReadXlsxRow(r) ==
    [r EXCEPT !.tech = [i \in DOMAIN r.tech |-> ReadXlsxCell(r.tech[i])],
              !.helper = [i \in DOMAIN r.helper |-> ReadXlsxCell(r.helper[i])]]

WriteXlsxRow(r) ==
    [r EXCEPT !.tech = [i \in DOMAIN r.tech |-> WriteXlsxCell(r.tech[i])],
              !.helper = [i \in DOMAIN r.helper |-> WriteXlsxCell(r.helper[i])]]

\* load_data(): the Inputs sheet as a DataFrame
load_data(sheet) == [i \in DOMAIN sheet |-> ReadXlsxRow(sheet[i])]

\* inputs_df.to_excel(writer, sheet_name="Inputs"): the sheet is replaced whole
to_excel(df) == [i \in DOMAIN df |-> WriteXlsxRow(df[i])]

(***************************************************************************)
(* Remaining quota of the selected project (the block "Calculate remaining *)
(* quotas" of main()).                                                     *)
(***************************************************************************)
Max(a, b) == IF a >= b THEN a ELSE b

\* Series.sum() of one completed column
RECURSIVE ColumnSum(_, _)
ColumnSum(rows, c) ==
    IF rows = <<>> THEN 0 ELSE Head(rows).completed[c] + ColumnSum(Tail(rows), c)

\* df.loc[(df["Project Owner"] == owner) & (df["Project Name"] == name)]
RowsOfProject(df, owner, name) ==
    LET Match(r) == r.ProjectOwner = owner /\ r.ProjectName = name
    IN  SelectSeq(df, Match)

\* int(total_row.iloc[0][...] or 0) raises ValueError on a NaN cell
QuotaRaises(projects, owner, name) ==
    LET total_row == RowsOfProject(projects, owner, name)
    IN  name # "" /\ total_row # <<>> /\ total_row[1].null # {}

RemainingOfMutIgnoresLog(projects, inputs, owner, name) ==
    LET total_row == RowsOfProject(projects, owner, name)
    IN  IF name = "" \/ total_row = <<>>
        THEN Zero4
        ELSE [c \in Categories |-> Max(total_row[1].qty[c], 0)]

RemainingOfMutOwnerOnly(projects, inputs, owner, name) ==
    LET total_row == RowsOfProject(projects, owner, name)
        SameOwner(r) == r.ProjectOwner = owner
        prev == SelectSeq(inputs, SameOwner)
    IN  IF name = "" \/ total_row = <<>>
        THEN Zero4
        ELSE [c \in Categories |->
                Max(total_row[1].qty[c] - ColumnSum(prev, c), 0)]

RemainingOfMutNoClamp(projects, inputs, owner, name) ==
    LET total_row == RowsOfProject(projects, owner, name)
        prev == RowsOfProject(inputs, owner, name)
    IN  IF name = "" \/ total_row = <<>>
        THEN Zero4
        ELSE [c \in Categories |-> total_row[1].qty[c] - ColumnSum(prev, c)]

RemainingOf(projects, inputs, owner, name) ==
    LET total_row == RowsOfProject(projects, owner, name)
        prev == RowsOfProject(inputs, owner, name)
    IN  IF name = "" \/ total_row = <<>>
        THEN Zero4
        ELSE [c \in Categories |->
                Max(total_row[1].qty[c] - ColumnSum(prev, c), 0)]

\* emirate = match.iloc[0]["Emirate"], "" without a match
EmirateOf(projects, owner, name) ==
    LET match == RowsOfProject(projects, owner, name)
    IN  IF name = "" \/ match = <<>> THEN "" ELSE match[1].Emirate

\* tech_selected[i] if len(tech_selected) > i else ""
Pad3(selected) ==
    [i \in 1..3 |-> IF Len(selected) >= i THEN selected[i] ELSE ""]

\* the row dictionary built on Submit
BuildRow(owner, name, emirate, counts, tech_selected, helper_selected) ==
    LogRow(owner, name, emirate, counts, Pad3(tech_selected), Pad3(helper_selected))

ConcatMutPrepend(df, row) == <<row>> \o df

\* pd.concat([inputs_df, pd.DataFrame([row])], ignore_index=True)
Concat(df, row) == Append(df, row)

\* tabs of the navigation radio
Tabs(is_admin) ==
    IF is_admin THEN {"Submit Entry", "Summary & Export"} ELSE {"Submit Entry"}

\* the branch of main() taken for the selected tab
PageView(selected_tab, is_admin) ==
    IF selected_tab = "Submit Entry"
    THEN "entry"
    ELSE IF selected_tab = "Summary & Export" /\ is_admin THEN "summary" ELSE "none"

NavigationMutAll(is_admin) == {"entry", "summary"}

\* the views a session of this role can select
Navigation(is_admin) == {PageView(t, is_admin) : t \in Tabs(is_admin)}

CountChoicesMutUnbounded(limit) == [Categories -> 0..MaxCount]

\* values a number_input with min_value=0, max_value=limit[c] can return
CountChoices(limit) ==
    {c \in [Categories -> 0..MaxCount] : \A k \in Categories : c[k] <= limit[k]}

\* values a request that bypasses the widgets can carry
AnyCounts == [Categories -> 0..MaxCount]

(***************************************************************************)
(* The "Summary & Export" tab: one summary row per project row, then one   *)
(* progress line per category with a positive total.                       *)
(***************************************************************************)
Min(a, b) == IF a <= b THEN a ELSE b

\* the rows appended to summary_rows by the loop over project_df.iterrows()
SummaryRows(projects, inputs) ==
    [i \in DOMAIN projects |->
        LET prev == RowsOfProject(inputs, projects[i].ProjectOwner,
                                  projects[i].ProjectName)
        IN  [ProjectOwner |-> projects[i].ProjectOwner,
             ProjectName |-> projects[i].ProjectName,
             completed |-> [c \in Categories |-> ColumnSum(prev, c)],
             total |-> projects[i].qty]]

PercentMutUnclamped(comp, total) ==
    LET num == 100 * comp
        q == num \div total
        r == num % total
    IN  IF 2 * r > total \/ (2 * r = total /\ q % 2 = 1) THEN q + 1 ELSE q

\* f"{pct_clamped:.0%}" for pct_clamped = max(0.0, min(1.0, comp / total)):
\* the whole percent nearest to the clamped ratio, a tie going to the even one
PercentClamped(comp, total) ==
    LET num == 100 * Max(0, Min(comp, total))
        q == num \div total
        r == num % total
    IN  IF 2 * r > total \/ (2 * r = total /\ q % 2 = 1) THEN q + 1 ELSE q

\* the progress lines of one summary row: a category appears when
\* total_val > 0, with the raw numbers and the clamped percentage
ProgressOf(row) ==
    [c \in Categories |->
        IF row.total[c] > 0
        THEN <<[comp_val |-> row.completed[c], total_val |-> row.total[c],
                pct |-> PercentClamped(row.completed[c], row.total[c])]>>
        ELSE <<>>]

\* what the summary tab renders: the table and the progress lines
SummaryView(projects, inputs) ==
    LET rows == SummaryRows(projects, inputs)
    IN  [i \in DOMAIN rows |-> [row |-> rows[i], progress |-> ProgressOf(rows[i])]]

submit_handlerMutIncremental(df, row, write_completes) ==
    [inputs_df |-> Concat(df, row),
     sheet |-> to_excel(<<row>>),
     wrote |-> write_completes,
     messages |-> IF write_completes THEN {"success"} ELSE {"exception"}]

submit_handlerMutSwallow(df, row, write_completes) ==
    LET updated == Concat(df, row)
    IN  [inputs_df |-> updated,
         sheet |-> to_excel(updated),
         wrote |-> write_completes,
         messages |-> {"success"}]

\* the Submit branch: append, persist, report.  write_completes tells
\* whether the ExcelWriter block returns or raises.
submit_handler(df, row, write_completes) ==
    LET updated == Concat(df, row)
    IN  [inputs_df |-> updated,
         sheet |-> to_excel(updated),
         wrote |-> write_completes,
         messages |-> IF write_completes THEN {"success"} ELSE {"exception"}]

(***************************************************************************)
(* show_login(users) for one run: the session state it leaves, the users   *)
(* frame it leaves, whether it called save_users, and `authenticated`.     *)
(***************************************************************************)
show_loginMutRefresh(st, df, login_clicked, input) ==
    LET phone == Strip(input)
    IN  IF ~st.logged_in
        THEN IF login_clicked /\ phone # EmptyText
             THEN IF PhoneKnown(df, phone)
                  THEN [authenticated |-> TRUE,
                        state |-> [logged_in |-> TRUE,
                                   is_admin |-> IsAdmin(df, phone),
                                   phone |-> phone],
                        users |-> df, wrote |-> FALSE]
                  ELSE [authenticated |-> TRUE,
                        state |-> [logged_in |-> TRUE, is_admin |-> FALSE,
                                   phone |-> phone],
                        users |-> Register(df, phone), wrote |-> TRUE]
             ELSE [authenticated |-> FALSE, state |-> st, users |-> df,
                   wrote |-> FALSE]
        ELSE [authenticated |-> TRUE,
              state |-> [st EXCEPT !.is_admin =
                           PhoneKnown(df, st.phone) /\ IsAdmin(df, st.phone)],
              users |-> df, wrote |-> FALSE]

show_login(st, df, login_clicked, input) ==
    LET phone == Strip(input)
    IN  IF ~st.logged_in
        THEN IF login_clicked /\ phone # EmptyText
             THEN IF PhoneKnown(df, phone)
                  THEN [authenticated |-> TRUE,
                        state |-> [logged_in |-> TRUE,
                                   is_admin |-> IsAdmin(df, phone),
                                   phone |-> phone],
                        users |-> df, wrote |-> FALSE]
                  ELSE [authenticated |-> TRUE,
                        state |-> [logged_in |-> TRUE, is_admin |-> FALSE,
                                   phone |-> phone],
                        users |-> Register(df, phone), wrote |-> TRUE]
             ELSE [authenticated |-> FALSE, state |-> st, users |-> df,
                   wrote |-> FALSE]
        ELSE [authenticated |-> TRUE, state |-> st, users |-> df,
              wrote |-> FALSE]

(***************************************************************************)
(* Initial state: the files as deployed, no run made yet.                  *)
(***************************************************************************)
AdminRow == [phone |-> PhoneAdmin, name |-> NameSara, role |-> AdminRoleCap]

NoUsersFile == [exists |-> FALSE, readable |-> FALSE, rows |-> <<>>]

UsersFiles ==
    { NoUsersFile,
      [exists |-> TRUE, readable |-> TRUE, rows |-> <<AdminRow>>],
      [exists |-> TRUE, readable |-> FALSE, rows |-> <<AdminRow>>] }

PhoneInputs == { <<>>, <<" ">>, <<"7">>, <<" ", "5", " ">>, PhoneNA }

NoNames == <<"", "", "">>

InitLogs ==
    { <<>>,
      << LogRow("Acme", "TowerA", "Dubai", <<3, 0, 0, 0>>, <<"Ali", "", "">>, NoNames) >>,
      << LogRow("Acme", "TowerA", "Dubai", <<1, 1, 0, 0>>, <<"Ali", "Omar", "">>, NoNames),
         LogRow("Acme", "Ghost", "", <<1, 1, 1, 1>>, NoNames, NoNames),
         LogRow("Beta", "TowerA", "Ajman", <<0, 0, 1, 0>>, NoNames, NoNames) >> }

TechSelections == { <<"Ali", "Omar">> }
HelperSelections == { <<>> }

LoggedOut == [logged_in |-> FALSE, is_admin |-> FALSE, phone |-> EmptyText]
NothingShown == [owner |-> "", name |-> "", rem |-> Zero4]

Init ==
    /\ variant \in {1, 2}
    /\ project_df \in ProjectTables
    /\ inputs_file \in (IF variant = 1 THEN InitLogs ELSE InitLogs \ {<<>>})
    /\ users_file \in (IF variant = 2 THEN UsersFiles ELSE {NoUsersFile})
    /\ workbook_ok = TRUE
    /\ session_state = [s \in Sessions |-> LoggedOut]
    /\ pc = [s \in Sessions |-> "idle"]
    /\ click = [s \in Sessions |-> "none"]
    /\ phone_input = [s \in Sessions |-> EmptyText]
    /\ users = [s \in Sessions |-> <<>>]
    /\ inputs_df = [s \in Sessions |-> <<>>]
    /\ shown = [s \in Sessions |-> {}]
    /\ remaining = [s \in Sessions |-> NothingShown]
    /\ save_result = [s \in Sessions |-> "none"]
    /\ summary = [s \in Sessions |-> <<>>]
    /\ submitted = [s \in Sessions |-> <<>>]

(***************************************************************************)
(* Script runs.                                                            *)
(***************************************************************************)
\* buttons the page rendered by the last run offers
Clicks(s) ==
    {"none"} \cup (IF "login" \in shown[s] THEN {"Login"} ELSE {})
             \cup (IF "entry" \in shown[s] THEN {"Submit"} ELSE {})

is_admin(s) == variant = 2 /\ session_state[s].is_admin

\* the script returns: its locals are gone, the page and the widget values stay
EndRun(s) ==
    /\ pc' = [pc EXCEPT ![s] = "idle"]
    /\ users' = [users EXCEPT ![s] = <<>>]
    /\ inputs_df' = [inputs_df EXCEPT ![s] = <<>>]
    /\ UNCHANGED <<click, phone_input>>

\* variant 1, main() up to load_data
StartRunV1(s) ==
    /\ variant = 1
    /\ pc[s] = "idle"
    /\ workbook_ok
    /\ \E c \in Clicks(s) : click' = [click EXCEPT ![s] = c]
    /\ inputs_df' = [inputs_df EXCEPT ![s] = load_data(inputs_file)]
    /\ pc' = [pc EXCEPT ![s] = "page"]
    /\ UNCHANGED <<variant, project_df, inputs_file, users_file, workbook_ok,
                   session_state, phone_input, users, shown, remaining,
                   save_result,
                   summary, submitted>>

\* variant 2, main() up to load_users
StartRunV2(s) ==
    /\ variant = 2
    /\ pc[s] = "idle"
    /\ \E c \in Clicks(s) :
          /\ click' = [click EXCEPT ![s] = c]
          /\ \E t \in (IF c = "Login" THEN PhoneInputs ELSE {phone_input[s]}) :
                phone_input' = [phone_input EXCEPT ![s] = t]
    /\ users' = [users EXCEPT ![s] = load_users(users_file)]
    /\ pc' = [pc EXCEPT ![s] = "show_login"]
    /\ UNCHANGED <<variant, project_df, inputs_file, users_file, workbook_ok,
                   session_state, inputs_df, shown, remaining, save_result,
                   summary, submitted>>

\* variant 2, show_login and the st.stop() after it
ShowLogin(s) ==
    /\ pc[s] = "show_login"
    /\ LET out == show_login(session_state[s], users[s], click[s] = "Login",
                              phone_input[s])
       IN  /\ out.wrote => Len(users[s]) < MaxUsers
           /\ session_state' = [session_state EXCEPT ![s] = out.state]
           /\ users_file' = IF out.wrote THEN save_users(out.users) ELSE users_file
           /\ IF out.authenticated
              THEN /\ pc' = [pc EXCEPT ![s] = "load_data"]
                   /\ users' = [users EXCEPT ![s] = <<>>]
                   /\ phone_input' = [phone_input EXCEPT ![s] = EmptyText]
                   /\ UNCHANGED <<click, inputs_df, shown>>
              ELSE /\ shown' = [shown EXCEPT ![s] = {"login"}]
                   /\ EndRun(s)
    /\ UNCHANGED <<variant, project_df, inputs_file, workbook_ok, remaining,
                   save_result,
                   summary, submitted>>

\* variant 2, load_data(DATA_FILE)
LoadData(s) ==
    /\ pc[s] = "load_data"
    /\ workbook_ok
    /\ inputs_df' = [inputs_df EXCEPT ![s] = load_data(inputs_file)]
    /\ pc' = [pc EXCEPT ![s] = "page"]
    /\ UNCHANGED <<variant, project_df, inputs_file, users_file, workbook_ok,
                   session_state, click, phone_input, users, shown, remaining,
                   save_result,
                   summary, submitted>>

\* pd.ExcelFile raises on a workbook that a failed write left broken
WorkbookRaises(s) ==
    /\ ~workbook_ok
    /\ \/ variant = 1 /\ pc[s] = "idle"
       \/ variant = 2 /\ pc[s] = "load_data"
    /\ shown' = [shown EXCEPT ![s] = {"exception"}]
    /\ EndRun(s)
    /\ UNCHANGED <<variant, project_df, inputs_file, users_file, workbook_ok,
                   session_state, remaining, save_result,
                   summary, submitted>>

\* the "Submit Entry" tab without a Submit click
ViewEntry(s) ==
    /\ pc[s] = "page"
    /\ click[s] # "Submit"
    /\ "entry" \in Navigation(is_admin(s))
    /\ \E i \in DOMAIN project_df :
          LET owner == project_df[i].ProjectOwner
              name == project_df[i].ProjectName
          IN  /\ ~QuotaRaises(project_df, owner, name)
              /\ remaining' = [remaining EXCEPT ![s] =
                    [owner |-> owner, name |-> name,
                     rem |-> RemainingOf(project_df, inputs_df[s], owner, name)]]
    /\ shown' = [shown EXCEPT ![s] = {"entry"}]
    /\ save_result' = [save_result EXCEPT ![s] = "none"]
    /\ summary' = [summary EXCEPT ![s] = <<>>]
    /\ submitted' = [submitted EXCEPT ![s] = <<>>]
    /\ EndRun(s)
    /\ UNCHANGED <<variant, project_df, inputs_file, users_file, workbook_ok,
                   session_state>>

\* the "Submit Entry" tab for a project with an empty quota cell
EntryRaises(s) ==
    /\ pc[s] = "page"
    /\ click[s] # "Submit"
    /\ "entry" \in Navigation(is_admin(s))
    /\ \E i \in DOMAIN project_df :
          QuotaRaises(project_df, project_df[i].ProjectOwner, project_df[i].ProjectName)
    /\ shown' = [shown EXCEPT ![s] = {"exception"}]
    /\ save_result' = [save_result EXCEPT ![s] = "none"]
    /\ summary' = [summary EXCEPT ![s] = <<>>]
    /\ submitted' = [submitted EXCEPT ![s] = <<>>]
    /\ EndRun(s)
    /\ UNCHANGED <<variant, project_df, inputs_file, users_file, workbook_ok,
                   session_state, remaining>>

\* the "Submit Entry" tab with a Submit click, for the project on the page
SubmitRun(s, direct, write_completes) ==
    /\ pc[s] = "page"
    /\ click[s] = "Submit"
    /\ Len(inputs_df[s]) < (IF direct THEN MaxLogDirect ELSE MaxLog)
    /\ write_completes => workbook_ok
    /\ LET owner == remaining[s].owner
           name == remaining[s].name
           rem == RemainingOf(project_df, inputs_df[s], owner, name)
       IN  /\ \E counts \in (IF direct THEN AnyCounts ELSE CountChoices(rem)),
                 tech_selected \in TechSelections,
                 helper_selected \in HelperSelections :
                 LET row == BuildRow(owner, name, EmirateOf(project_df, owner, name),
                                     counts, tech_selected, helper_selected)
                     out == submit_handler(inputs_df[s], row, write_completes)
                 IN  /\ inputs_file' = IF out.wrote THEN out.sheet ELSE inputs_file
                     /\ shown' = [shown EXCEPT ![s] = {"entry"} \cup out.messages]
                     /\ save_result' = [save_result EXCEPT ![s] =
                           IF out.wrote THEN "saved" ELSE "failed"]
                     /\ submitted' = [submitted EXCEPT ![s] = <<row>>]
           /\ remaining' = [remaining EXCEPT ![s] =
                 [owner |-> owner, name |-> name, rem |-> rem]]
    /\ IF write_completes
       THEN workbook_ok' = workbook_ok
       ELSE workbook_ok' \in {workbook_ok, FALSE}
    /\ summary' = [summary EXCEPT ![s] = <<>>]
    /\ EndRun(s)
    /\ UNCHANGED <<variant, project_df, users_file, session_state>>

Submit(s) == SubmitRun(s, FALSE, TRUE)

SubmitDirect(s) == SubmitRun(s, TRUE, TRUE)

SubmitFails(s) == SubmitRun(s, FALSE, FALSE)

\* int(p_row.get(..., 0) or 0) raises ValueError on a NaN cell
SummaryRaisesOn(projects) == \E i \in DOMAIN projects : projects[i].null # {}

\* the "Summary & Export" tab
ViewSummary(s) ==
    /\ pc[s] = "page"
    /\ click[s] # "Submit"
    /\ "summary" \in Navigation(is_admin(s))
    /\ shown' = [shown EXCEPT ![s] =
          IF SummaryRaisesOn(project_df) THEN {"exception"} ELSE {"summary"}]
    /\ summary' = [summary EXCEPT ![s] =
          IF SummaryRaisesOn(project_df)
          THEN <<>>
          ELSE SummaryView(project_df, inputs_df[s])]
    /\ save_result' = [save_result EXCEPT ![s] = "none"]
    /\ submitted' = [submitted EXCEPT ![s] = <<>>]
    /\ EndRun(s)
    /\ UNCHANGED <<variant, project_df, inputs_file, users_file, workbook_ok,
                   session_state, remaining>>

\* users.csv edited outside the app (the only way a role changes): the
\* record of phone 7 is promoted or demoted
EditRegistry ==
    /\ variant = 2
    /\ users_file.exists /\ users_file.readable
    /\ \E i \in DOMAIN users_file.rows, r \in {UserRole, AdminRole} :
          /\ users_file.rows[i].phone = PhoneAdmin
          /\ users_file.rows[i].role # r
          /\ users_file' = [users_file EXCEPT !.rows[i].role = r]
    /\ UNCHANGED <<variant, project_df, inputs_file, workbook_ok, session_state,
                   pc, click, phone_input, users, inputs_df, shown, remaining,
                   save_result,
                   summary, submitted>>

\* the browser is reloaded: the run starts with an empty st.session_state
\* ('logged_in' not in st.session_state) and an empty page
NewSession(s) ==
    /\ pc[s] = "idle"
    /\ shown[s] # {}
    /\ session_state' = [session_state EXCEPT ![s] = LoggedOut]
    /\ shown' = [shown EXCEPT ![s] = {}]
    /\ click' = [click EXCEPT ![s] = "none"]
    /\ phone_input' = [phone_input EXCEPT ![s] = EmptyText]
    /\ remaining' = [remaining EXCEPT ![s] = NothingShown]
    /\ save_result' = [save_result EXCEPT ![s] = "none"]
    /\ summary' = [summary EXCEPT ![s] = <<>>]
    /\ submitted' = [submitted EXCEPT ![s] = <<>>]
    /\ UNCHANGED <<variant, project_df, inputs_file, users_file, workbook_ok,
                   pc, users, inputs_df>>

Run(s) ==
    \/ NewSession(s)
    \/ StartRunV1(s)
    \/ StartRunV2(s)
    \/ ShowLogin(s)
    \/ LoadData(s)
    \/ ViewEntry(s)
    \/ EntryRaises(s)
    \/ Submit(s)
    \/ ViewSummary(s)

\* one browser session using the app
Next == Run("s1") \/ EditRegistry

Spec == Init /\ [][Next]_vars

\* variant 1, one session whose requests are not limited by the number_input
\* widgets
NextDirect ==
    \/ NewSession("s1")
    \/ StartRunV1("s1")
    \/ ViewEntry("s1")
    \/ EntryRaises("s1")
    \/ Submit("s1")
    \/ SubmitDirect("s1")

InitDirect == Init /\ variant = 1

SpecDirect == InitDirect /\ [][NextDirect]_vars

\* one session, with workbook writes that can fail
NextFail == Next \/ SubmitFails("s1") \/ WorkbookRaises("s1")

SpecFail == Init /\ [][NextFail]_vars

\* a Submit run of one of two concurrent sessions
SubmitTwo(s) == Len(inputs_df[s]) < MaxLogTwo /\ Submit(s)

\* variant 1 used from two browser sessions at once: their runs interleave
\* between reading the workbook and writing it
NextTwo ==
    \E s \in Sessions :
       \/ StartRunV1(s)
       \/ ViewEntry(s)
       \/ SubmitTwo(s)

\* a workbook with one project and no submission yet
ProjectTableOne == << ProjectRow("Acme", "TowerA", "Dubai", <<1, 1, 0, 0>>, {}) >>

InitTwo ==
    /\ variant = 1
    /\ project_df = ProjectTableOne
    /\ inputs_file = <<>>
    /\ users_file = NoUsersFile
    /\ workbook_ok = TRUE
    /\ session_state = [s \in Sessions |-> LoggedOut]
    /\ pc = [s \in Sessions |-> "idle"]
    /\ click = [s \in Sessions |-> "none"]
    /\ phone_input = [s \in Sessions |-> EmptyText]
    /\ users = [s \in Sessions |-> <<>>]
    /\ inputs_df = [s \in Sessions |-> <<>>]
    /\ shown = [s \in Sessions |-> {}]
    /\ remaining = [s \in Sessions |-> NothingShown]
    /\ save_result = [s \in Sessions |-> "none"]
    /\ summary = [s \in Sessions |-> <<>>]
    /\ submitted = [s \in Sessions |-> <<>>]

SpecTwo == InitTwo /\ [][NextTwo]_vars

(***************************************************************************)
(* Claims.                                                                 *)
(***************************************************************************)
OwnerUniverse == {"Acme", "Beta", "Gamma"}
NameUniverse == {"TowerA", "TowerB", "Ghost", ""}

\* the project rows of (o, n), as a set of positions
ProjectIndex(projects, o, n) ==
    {i \in DOMAIN projects :
        projects[i].ProjectOwner = o /\ projects[i].ProjectName = n}

\* sum of category c over the first k log rows whose owner and name are o, n
RECURSIVE CompletedUpTo(_, _, _, _, _)
CompletedUpTo(log, k, o, n, c) ==
    IF k = 0
    THEN 0
    ELSE CompletedUpTo(log, k - 1, o, n, c)
         + (IF log[k].ProjectOwner = o /\ log[k].ProjectName = n
            THEN log[k].completed[c] ELSE 0)

Completed(log, o, n, c) == CompletedUpTo(log, Len(log), o, n, c)

QuotaCellsPresent(projects, o, n) ==
    \A i \in ProjectIndex(projects, o, n) : projects[i].null = {}

ExpectedRemaining(projects, log, o, n, c) ==
    IF ProjectIndex(projects, o, n) = {}
    THEN 0
    ELSE LET i == CHOOSE j \in ProjectIndex(projects, o, n) : TRUE
             left == projects[i].qty[c] - Completed(log, o, n, c)
         IN  IF left > 0 THEN left ELSE 0

\* a completed run of s rendered the entry form without a Submit click
FreshEntryView(s) ==
    pc[s] = "idle" /\ shown[s] = {"entry"}

\* C1: for every (owner, name) and every log, each category's remaining quota
\* is max(quota - sum of that category over the rows of that owner and name, 0):
\* never negative, rows of other projects do not count, and all four are 0
\* when no project row matches.  The value the entry form displays is that
\* value for the persisted log.  The first conjunct depends on the project
\* table and the persisted log only; it is evaluated where the session has
\* rendered nothing yet, a state every reachable pair of table and log occurs
\* in (initially, and in the new session that can follow any submit).
C1_RemainingIsClampedDifference ==
    /\ shown["s1"] = {} =>
          \A o \in OwnerUniverse, n \in NameUniverse :
             QuotaCellsPresent(project_df, o, n) =>
               \A c \in Categories :
                  /\ RemainingOf(project_df, load_data(inputs_file), o, n)[c]
                       = ExpectedRemaining(project_df, inputs_file, o, n, c)
                  /\ RemainingOf(project_df, load_data(inputs_file), o, n)[c] >= 0
    /\ FreshEntryView("s1") =>
          \A c \in Categories :
             remaining["s1"].rem[c]
               = ExpectedRemaining(project_df, inputs_file, remaining["s1"].owner,
                                   remaining["s1"].name, c)

\* the form shows a project whose log is over its quota in one category while
\* the log also holds rows of other projects
C1_Witness ==
    /\ FreshEntryView("s1")
    /\ \E c \in Categories :
          Completed(inputs_file, remaining["s1"].owner, remaining["s1"].name, c)
            > project_df[CHOOSE j \in ProjectIndex(project_df, remaining["s1"].owner,
                                                   remaining["s1"].name) : TRUE].qty[c]
    /\ \E k \in DOMAIN inputs_file :
          /\ inputs_file[k].ProjectOwner = remaining["s1"].owner
          /\ inputs_file[k].ProjectName # remaining["s1"].name
          /\ inputs_file[k].completed # Zero4

\* the step of s that ends a run started by a Submit click
SubmitStep(s) == pc[s] = "page" /\ click[s] = "Submit" /\ pc'[s] = "idle"

\* the step of s that runs show_login after a Login click
LoginStep(s) ==
    /\ pc[s] = "show_login" /\ pc'[s] # "show_login"
    /\ click[s] = "Login" /\ ~session_state[s].logged_in

LastRow(log) == log[Len(log)]

\* C2: a submit with a count outside [0, remaining at the moment of the
\* submit] is rejected by the handler whatever the widgets allowed: it appends
\* no record, leaves the persisted log unchanged and reports no success.
\* Stated on the submit step: whenever the log changes or success is reported,
\* the counts of the appended record are within the remaining values computed
\* from the log the run loaded.
C2_OutOfRangeSubmitRejected ==
    [][SubmitStep("s1") /\ (inputs_file' # inputs_file \/ "success" \in shown'["s1"])
         => \A c \in Categories :
               LastRow(inputs_file').completed[c]
                 <= RemainingOf(project_df, inputs_df["s1"], remaining["s1"].owner,
                                remaining["s1"].name)[c]]_vars

\* C3: after a submit of counts c for project P (each count within the
\* remaining value of its category), the remaining quota of P recomputed from
\* the persisted log is the remaining quota of the submit's render minus c, the
\* remaining quota of every other project is unchanged, and every later view
\* displays the value recomputed from the persisted log.
C3_SubmitReducesRemaining ==
    [][/\ SubmitStep("s1") =>
            \A i \in DOMAIN project_df : \A c \in Categories :
               LET o == project_df[i].ProjectOwner
                   n == project_df[i].ProjectName
                   row == LastRow(inputs_file')
               IN  project_df[i].null = {} =>
                     ExpectedRemaining(project_df, inputs_file', o, n, c)
                       = IF o = row.ProjectOwner /\ n = row.ProjectName
                         THEN remaining'["s1"].rem[c] - row.completed[c]
                         ELSE ExpectedRemaining(project_df, inputs_file, o, n, c)
       /\ (pc["s1"] = "page" /\ pc'["s1"] = "idle" /\ shown'["s1"] = {"entry"}) =>
            \A c \in Categories :
               remaining'["s1"].rem[c]
                 = ExpectedRemaining(project_df, inputs_file', remaining'["s1"].owner,
                                     remaining'["s1"].name, c)]_vars

\* a view of Acme/TowerA (quota 2,1,0,1) after the submit of 1,1,0,0 with
\* technicians Ali and Omar onto an empty log shows 1,0,0,1
C3_Witness ==
    /\ FreshEntryView("s1")
    /\ Len(inputs_file) = 1
    /\ inputs_file[1].completed = <<1, 1, 0, 0>>
    /\ inputs_file[1].tech = <<"Ali", "Omar", "">>
    /\ inputs_file[1].helper = <<"", "", "">>
    /\ remaining["s1"] = [owner |-> "Acme", name |-> "TowerA", rem |-> <<1, 0, 0, 1>>]

\* C4: with a single session, a submit leaves the persisted log equal to the
\* log before it followed by exactly the one new record (last, length + 1),
\* and no step changes or removes an earlier row.
C4_AppendOnly ==
    [][/\ Len(inputs_file') >= Len(inputs_file)
       /\ SubSeq(inputs_file', 1, Len(inputs_file)) = inputs_file
       /\ SubmitStep("s1") =>
            /\ Len(inputs_file') = Len(inputs_file) + 1
            /\ inputs_file = to_excel(inputs_df["s1"])
            /\ LastRow(inputs_file').ProjectOwner = remaining["s1"].owner
            /\ LastRow(inputs_file').ProjectName = remaining["s1"].name
       /\ ~SubmitStep("s1") => inputs_file' = inputs_file]_vars

\* a submit has been appended behind the two rows of an earlier log
C4_Witness ==
    /\ pc["s1"] = "idle" /\ click["s1"] = "Submit" /\ "success" \in shown["s1"]
    /\ Len(inputs_file) = 2
    /\ inputs_file[1].completed = <<3, 0, 0, 0>>
    /\ inputs_file[1].tech = <<"Ali", "", "">>
    /\ inputs_file[2].ProjectName = "TowerB"

FilePhones(file) == { file.rows[i].phone : i \in DOMAIN file.rows }

\* C5: a login with a non-empty phone that users.csv does not hold yet logs
\* the session in with the role user and adds exactly the one row {phone,
\* name "", role "user"} behind the rows already there; a login with a phone
\* that users.csv holds adds no row; users.csv never holds two rows for one
\* phone.  Stated for a users.csv that is absent or can be read, and that has
\* not been edited since the run read it.
C5_UnseenPhoneRegisteredOnce ==
    [][\A s \in Sessions :
         (/\ LoginStep(s)
          /\ Strip(phone_input[s]) # EmptyText
          /\ users_file.exists => users_file.readable
          /\ users[s] = load_users(users_file))
         => /\ IF Strip(phone_input[s]) \in FilePhones(users_file)
               THEN users_file'.rows = users_file.rows
               ELSE /\ users_file'.rows
                         = Append(users_file.rows,
                                  [phone |-> Strip(phone_input[s]),
                                   name |-> EmptyText, role |-> UserRole])
                    /\ session_state'[s]
                         = [logged_in |-> TRUE, is_admin |-> FALSE,
                            phone |-> Strip(phone_input[s])]
            /\ \A i, j \in DOMAIN users_file'.rows :
                  i # j => users_file'.rows[i].phone # users_file'.rows[j].phone]_vars

AdminSpellings == {AdminRole, AdminRoleCap}

\* C6: a login with a phone that users.csv already holds (exact text) logs
\* the session in with that record's role (admin exactly when the role reads
\* "admin" in any letter case) and leaves users.csv untouched.
C6_KnownPhoneLoginLeavesRegistry ==
    [][\A s \in Sessions :
         (/\ LoginStep(s)
          /\ Strip(phone_input[s]) # EmptyText
          /\ \E i \in DOMAIN users_file.rows :
                users_file.rows[i].phone = Strip(phone_input[s]))
         => /\ users_file' = users_file
            /\ session_state'[s].logged_in
            /\ session_state'[s].phone = Strip(phone_input[s])
            /\ PhoneKnown(users[s], Strip(phone_input[s]))
            /\ session_state'[s].is_admin
                 = (UserRecord(users[s], Strip(phone_input[s])).role
                      \in AdminSpellings)]_vars

OnlySpaces(t) == \A i \in DOMAIN t : t[i] = " "

\* C7: a Login click with an empty or whitespace-only phone changes nothing:
\* the session state is as before (logged out), users.csv is not written, and
\* the login form is shown again.
C7_BlankPhoneRejected ==
    [][\A s \in Sessions :
         (LoginStep(s) /\ OnlySpaces(phone_input[s]))
         => /\ session_state'[s] = session_state[s]
            /\ ~session_state'[s].logged_in
            /\ users_file' = users_file
            /\ pc'[s] = "idle"
            /\ shown'[s] = {"login"}]_vars

\* a Login click with the phone " " has been answered with the login form
C7_Witness ==
    /\ pc["s1"] = "idle" /\ click["s1"] = "Login"
    /\ phone_input["s1"] = <<" ">>
    /\ shown["s1"] = {"login"}
    /\ session_state["s1"] = LoggedOut

\* C8: within a session the only change of the login state is LoggedOut ->
\* LoggedIn(phone, role), made by show_login on a Login click with a phone
\* that is not blank; a logged-in session keeps its phone and its role on
\* every later step, whatever happens to users.csv.  (A reloaded browser is
\* a new session: its step empties the page.)
C8_LoginIsTerminal ==
    [][\A s \in Sessions :
         /\ (session_state[s].logged_in /\ shown'[s] # {})
              => session_state'[s] = session_state[s]
         /\ (~session_state[s].logged_in /\ session_state'[s].logged_in)
              => /\ LoginStep(s)
                 /\ ~OnlySpaces(phone_input[s])
                 /\ session_state'[s].phone # EmptyText
         /\ ~session_state'[s].logged_in => session_state'[s] = LoggedOut]_vars

\* a session logged in as admin renders the summary although the record of
\* its phone now has the role "user"
C8_Witness ==
    /\ pc["s1"] = "idle" /\ shown["s1"] = {"summary"}
    /\ session_state["s1"].is_admin
    /\ \E i \in DOMAIN users_file.rows :
          /\ users_file.rows[i].phone = session_state["s1"].phone
          /\ users_file.rows[i].role = UserRole

\* C9: in variant 2 the summary is rendered only for a logged-in admin
\* session; a logged-out session renders neither the entry form nor the
\* summary; a session logged in with the role user never renders the summary.
C9_SummaryOnlyForAdmin ==
    variant = 2 =>
      \A s \in Sessions :
         /\ "summary" \in shown[s]
              => session_state[s].logged_in /\ session_state[s].is_admin
         /\ ~session_state[s].logged_in
              => "entry" \notin shown[s] /\ "summary" \notin shown[s]
         /\ (session_state[s].logged_in /\ ~session_state[s].is_admin)
              => "summary" \notin shown[s]

\* an admin session shows the summary
C9_Witness ==
    /\ variant = 2
    /\ shown["s1"] = {"summary"}
    /\ session_state["s1"].logged_in /\ session_state["s1"].is_admin

\* C10: success is shown for a submit only when the workbook write of that
\* run completed; when the write failed the run shows the exception and no
\* success message.
C10_SuccessOnlyAfterPersist ==
    \A s \in Sessions :
       /\ "success" \in shown[s] => save_result[s] = "saved"
       /\ save_result[s] = "failed"
            => "exception" \in shown[s] /\ "success" \notin shown[s]

\* a submit whose write failed has shown the exception
C10_Witness ==
    /\ pc["s1"] = "idle" /\ click["s1"] = "Submit"
    /\ save_result["s1"] = "failed"
    /\ "exception" \in shown["s1"]

\* C11: the summary an admin sees has one row per row of the project table,
\* in the table's order; its totals are the project's quotas and its completed
\* numbers are the raw sums over the matching log rows (not clamped, so they
\* can exceed the total); a category has a progress line exactly when its
\* total is above 0, and the line shows the raw numbers with the percentage of
\* completed/total clamped to 0..100, so 100% for an over-submitted category.
C11_SummaryRowsAndRatios ==
    \A s \in Sessions :
       shown[s] = {"summary"} =>
         /\ Len(summary[s]) = Len(project_df)
         /\ \A i \in DOMAIN summary[s] : \A c \in Categories :
               LET row == summary[s][i].row
                   line == summary[s][i].progress[c]
                   done == Completed(inputs_file, project_df[i].ProjectOwner,
                                     project_df[i].ProjectName, c)
               IN  /\ row.ProjectOwner = project_df[i].ProjectOwner
                   /\ row.ProjectName = project_df[i].ProjectName
                   /\ row.total[c] = project_df[i].qty[c]
                   /\ row.completed[c] = done
                   /\ (line # <<>>) <=> (row.total[c] > 0)
                   /\ line # <<>> =>
                        /\ line[1].comp_val = done
                        /\ line[1].total_val = row.total[c]
                        /\ line[1].pct \in 0..100
                        /\ done >= row.total[c] => line[1].pct = 100
                        /\ done < row.total[c] =>
                             /\ 2 * (line[1].pct * row.total[c] - 100 * done)
                                  <= row.total[c]
                             /\ 2 * (100 * done - line[1].pct * row.total[c])
                                  <= row.total[c]

\* the summary shows a category with completed above its total, at 100%, and
\* a category without a progress line
C11_Witness ==
    /\ pc["s1"] = "idle" /\ shown["s1"] = {"summary"}
    /\ \E i \in DOMAIN summary["s1"] : \E c, d \in Categories :
          /\ summary["s1"][i].row.completed[c] > summary["s1"][i].row.total[c]
          /\ summary["s1"][i].row.total[c] > 0
          /\ summary["s1"][i].progress[c][1].pct = 100
          /\ summary["s1"][i].progress[d] = <<>>

\* C12: an empty quota cell of the selected project's row counts as quota 0:
\* the run that renders the page for it does not raise, and the remaining
\* values it displays are 0 for that category and max(quota - completed, 0)
\* for the others.  Stated on every run of the page without a Submit click
\* (the workbook being readable): it ends without an exception, and an entry
\* form it renders displays those values.
C12_NullQuotaCountsAsZero ==
    [][\A s \in Sessions :
         (pc[s] = "page" /\ pc'[s] = "idle" /\ click[s] # "Submit")
         => /\ "exception" \notin shown'[s]
            /\ shown'[s] = {"entry"} =>
                 \A c \in Categories :
                    remaining'[s].rem[c]
                      = ExpectedRemaining(project_df, inputs_file,
                                          remaining'[s].owner, remaining'[s].name, c)]_vars

\* every project's cumulative completed count is at most its quota
WithinQuota(projects, log) ==
    \A i \in DOMAIN projects : \A c \in Categories :
       Completed(log, projects[i].ProjectOwner, projects[i].ProjectName, c)
         <= projects[i].qty[c]

\* s ends a Submit run whose snapshot lacks exactly the record that t, which
\* was told success, wrote on top of the same snapshot
RacingWrite(s, t) ==
    /\ s # t
    /\ SubmitStep(s)
    /\ submitted[t] # <<>>
    /\ "success" \in shown[t]
    /\ inputs_file = Append(to_excel(inputs_df[s]), WriteXlsxRow(submitted[t][1]))

\* C13 (as the spec states it): when two sessions submit against the same
\* project from the same snapshot of the log, each with counts within the
\* remaining values of that snapshot, and their counts together exceed what
\* remained in some category, then after both writes the persisted log's
\* cumulative count exceeds the project's quota in some category.
C13_RaceExceedsQuota ==
    [][\A s, t \in Sessions :
         (/\ RacingWrite(s, t)
          /\ submitted[t][1].ProjectOwner = remaining[s].owner
          /\ submitted[t][1].ProjectName = remaining[s].name
          /\ \E c \in Categories :
                submitted[t][1].completed[c] + submitted'[s][1].completed[c]
                  > RemainingOf(project_df, inputs_df[s], remaining[s].owner,
                                remaining[s].name)[c])
         => ~WithinQuota(project_df, inputs_file')]_vars

\* C13 (as the code behaves): with two sessions whose runs interleave freely,
\* starting from a log within quota and with each run's counts limited to the
\* remaining values of the log that run loaded, every submit reports success
\* and the persisted log stays within every quota in every category: a write
\* stores the run's own snapshot plus its one record, so of two racing
\* submissions the earlier record is dropped rather than added.
C13_RaceStaysWithinQuota ==
    /\ WithinQuota(project_df, inputs_file)
    /\ \A s \in Sessions : submitted[s] # <<>> => "success" \in shown[s]

\* both sessions were told success for records whose counts together exceed
\* the quota, and the log holds only the later one
C13_Witness ==
    /\ pc["s1"] = "idle" /\ pc["s2"] = "idle"
    /\ "success" \in shown["s1"] /\ "success" \in shown["s2"]
    /\ submitted["s1"] # <<>> /\ submitted["s2"] # <<>>
    /\ \E c \in Categories :
          submitted["s1"][1].completed[c] + submitted["s2"][1].completed[c]
            > project_df[1].qty[c]
    /\ inputs_file = <<WriteXlsxRow(submitted["s2"][1])>>

\* C14: a submit replaces the stored sheet with the run's in-memory table (its
\* snapshot followed by its record), whatever the sheet holds by then.  So when
\* two sessions loaded the same log L and both submit, the sheet after the
\* second write is L followed by the later record only, while the earlier
\* writer keeps its success message.
C14_LastWriterWins ==
    [][\A s \in Sessions :
         SubmitStep(s) =>
           /\ inputs_file'
                = Append(to_excel(inputs_df[s]), WriteXlsxRow(submitted'[s][1]))
           /\ \A t \in Sessions :
                 RacingWrite(s, t) =>
                   /\ Len(inputs_file') = Len(inputs_file)
                   /\ SubSeq(inputs_file', 1, Len(inputs_file) - 1)
                        = SubSeq(inputs_file, 1, Len(inputs_file) - 1)
                   /\ LastRow(inputs_file') = WriteXlsxRow(submitted'[s][1])
                   /\ "success" \in shown'[t] /\ save_result'[t] = "saved"
                   /\ "success" \in shown'[s]]_vars

\* two sessions raced on a one-row log: s1 still shows success for a record
\* that is in no row of the sheet, whose last row is the record of s2
C14_Witness ==
    /\ pc["s1"] = "idle" /\ pc["s2"] = "idle"
    /\ "success" \in shown["s1"] /\ save_result["s1"] = "saved"
    /\ "success" \in shown["s2"] /\ save_result["s2"] = "saved"
    /\ Len(inputs_file) = 2
    /\ \A i \in DOMAIN inputs_file :
          inputs_file[i] # WriteXlsxRow(submitted["s1"][1])
    /\ inputs_file[2] = WriteXlsxRow(submitted["s2"][1])

\* C15: with one session whose counts are limited by the number_input
\* widgets to 0..remaining of the run that submits them, a persisted log in
\* which every project's cumulative count is within its quota in every
\* category is followed only by logs with that property, so from such a log
\* no sequence of submits leads over a quota.
C15_SingleSessionWithinQuota ==
    [][WithinQuota(project_df, inputs_file)
         => /\ WithinQuota(project_df, inputs_file')
            /\ SubmitStep("s1") =>
                 \A c \in Categories :
                    submitted'["s1"][1].completed[c] <= remaining'["s1"].rem[c]]_vars

\* two submits of one indoor unit each have filled the indoor quota of 2
C15_Witness ==
    /\ pc["s1"] = "idle" /\ click["s1"] = "Submit" /\ "success" \in shown["s1"]
    /\ Len(inputs_file) = 2
    /\ inputs_file[1].completed[1] = 1 /\ inputs_file[2].completed[1] = 1
    /\ inputs_file[1].ProjectName = "TowerA" /\ inputs_file[2].ProjectName = "TowerA"
    /\ inputs_file[1].ProjectOwner = "Acme" /\ inputs_file[2].ProjectOwner = "Acme"
    /\ WithinQuota(project_df, inputs_file)

\* C16: a login that registers an unseen phone while users.csv exists leaves
\* every row users.csv held in place and unchanged and adds exactly the one
\* new row behind them, also when reading the file raised.  Stated for a file
\* that has not been edited since the run read it.
C16_RegistrationKeepsRows ==
    [][\A s \in Sessions :
         (/\ LoginStep(s)
          /\ users_file.exists
          /\ users[s] = load_users(users_file)
          /\ Strip(phone_input[s]) # EmptyText
          /\ Strip(phone_input[s]) \notin FilePhones(users_file))
         => /\ Len(users_file'.rows) = Len(users_file.rows) + 1
            /\ SubSeq(users_file'.rows, 1, Len(users_file.rows)) = users_file.rows
            /\ LastRow(users_file'.rows)
                 = [phone |-> Strip(phone_input[s]), name |-> EmptyText,
                    role |-> UserRole]]_vars

====
